---------------------------- MODULE Spec2Model ----------------------------
(***************************************************************************)
(* NavSphere: the build pipeline (scripts/build-data.ts) and the validate  *)
(* command (scripts/validate.ts) over the YAML data files, with the Zod    *)
(* schemas of src/types/index.ts.                                          *)
(*                                                                         *)
(* A YAML record is a TLA+ record; an optional field that is absent is     *)
(* absent from the record's DOMAIN.  A null array element is Null.         *)
(* Strings are TLA+ strings, template literals are \o concatenations.      *)
(* The optional description / icon fields are copied verbatim by the code  *)
(* and read by nothing modelled here; they are left out of the records.    *)
(***************************************************************************)
EXTENDS Integers, Sequences, FiniteSets, TLC

VARIABLES
    categories,       \* categories.yaml as loaded
    projects,         \* projects.yaml as loaded
    projectEnvs,      \* project-envs.yaml as loaded
    links,            \* links.yaml as loaded
    navigationItems,  \* build: result of expandNavigationItems
    categoryBlocks,   \* build: result of groupByCategory
    bpc,              \* build: position in build()
    allErrors,        \* validate: main's allErrors
    checksRun,        \* validate: the "校验 ..." sections main has entered
    vpc               \* validate: position in main()

vars == <<categories, projects, projectEnvs, links, navigationItems,
          categoryBlocks, bpc, allErrors, checksRun, vpc>>

inputs == <<categories, projects, projectEnvs, links>>
buildVars == <<navigationItems, categoryBlocks, bpc>>
validateVars == <<allErrors, checksRun, vpc>>

---------------------------------------------------------------------------
(* Bounds of the model *)

MaxCats == 2      \* SpecGroup: categories passed to groupByCategory
MaxItems == 2     \* SpecGroup: navigation items passed to groupByCategory
MaxRecords == 4   \* SpecPipeline: records in the four data files together
MaxRaw == 3       \* SpecValidate: records in the four data files together

---------------------------------------------------------------------------
(* Generic helpers: JavaScript array operations *)

Null == [isNull |-> TRUE]
IsNull(v) == "isNull" \in DOMAIN v

Has(r, f) == f \in DOMAIN r

SeqOf(S, n) == UNION {[1..k -> S] : k \in 0..n}

Range(s) == {s[i] : i \in 1..Len(s)}

\* Array.prototype.filter: the elements of s at the positions in keep, in
\* array order
RECURSIVE KeepFrom(_, _, _)
KeepFrom(s, keep, i) ==
    IF i > Len(s) THEN <<>>
    ELSE (IF i \in keep THEN <<s[i]>> ELSE <<>>) \o KeepFrom(s, keep, i + 1)

Keep(s, keep) == KeepFrom(s, keep, 1)

\* Consecutive items.push(...) of several runs: the runs concatenated
RECURSIVE FlattenFrom(_, _)
FlattenFrom(ss, i) ==
    IF i > Len(ss) THEN <<>> ELSE ss[i] \o FlattenFrom(ss, i + 1)

Flatten(ss) == FlattenFrom(ss, 1)

\* Array.prototype.indexOf (first position, strict equality), 0 when absent
IndexOf(s, x) ==
    IF \E i \in 1..Len(s) : s[i] = x
    THEN CHOOSE i \in 1..Len(s) : s[i] = x /\ \A j \in 1..(i - 1) : s[j] # x
    ELSE 0

Includes(s, x) == \E i \in 1..Len(s) : s[i] = x

\* [...new Set(s)]: first occurrences, in insertion order
Distinct(s) == Keep(s, {i \in 1..Len(s) : IndexOf(s, s[i]) = i})

---------------------------------------------------------------------------
(* build-data.ts *)

EnvTypes == {"test", "staging", "prod"}

\* getEnvOrder: orderMap[env]
getEnvOrder(env) ==
    CASE env = "prod" -> 1
      [] env = "staging" -> 2
      [] env = "test" -> 3

\* String.prototype.localeCompare: the collation order of the project names
\* of the model, lower case before upper case ("alpha" < "beta" < "Beta"),
\* which is not their code unit order ("Beta" < "alpha" < "beta").
CollationOrder == <<"alpha", "beta", "Beta">>
ProjectNames == Range(CollationOrder)
localeCompare(a, b) == IndexOf(CollationOrder, a) - IndexOf(CollationOrder, b)

\* item.enabled as a condition: absent (undefined) is falsy
Truthy(r, f) == Has(r, f) /\ r[f] = TRUE

\* The navigation item with the project id alone as its id
MakeItemNoEnv(project, env) ==
    [id |-> project.id,
     projectId |-> project.id,
     projectName |-> project.name,
     categoryId |-> project.categoryId,
     env |-> env.env,
     url |-> env.url,
     order |-> getEnvOrder(env.env)]
    @@ (IF Has(env, "enabled") THEN [enabled |-> env.enabled] ELSE <<>>)

\* items.push({...}): the navigation item of one (project, env) pair;
\* enabled is whatever the env record carries, undefined when it has none.
MakeItem(project, env) ==
    [id |-> project.id \o "-" \o env.env,
     projectId |-> project.id,
     projectName |-> project.name,
     categoryId |-> project.categoryId,
     env |-> env.env,
     url |-> env.url,
     order |-> getEnvOrder(env.env)]
    @@ (IF Has(env, "enabled") THEN [enabled |-> env.enabled] ELSE <<>>)

\* projectEnvs.filter((e) => e.projectId === project.id), first match only
MatchingEnvsFirst(project, envs) ==
    LET all == Keep(envs, {k \in 1..Len(envs) : envs[k].projectId = project.id})
    IN  IF all = <<>> THEN <<>> ELSE <<Head(all)>>

\* projectEnvs.filter((e) => e.projectId === project.id)
MatchingEnvs(project, envs) ==
    Keep(envs, {k \in 1..Len(envs) : envs[k].projectId = project.id})

\* The items pushed for one project, one per matching env
ItemsOfProject(project, envs) ==
    LET matching == MatchingEnvs(project, envs)
    IN  [k \in 1..Len(matching) |-> MakeItem(project, matching[k])]

expandNavigationItems(ps, envs) ==
    Flatten([i \in 1..Len(ps) |-> ItemsOfProject(ps[i], envs)])

\* The filter callback reads e.projectId and project.id: a TypeError when
\* either is null, which happens as soon as one pair is compared.
ExpandThrows(ps, envs) ==
    /\ Len(ps) > 0
    /\ Len(envs) > 0
    /\ \/ \E i \in 1..Len(ps) : IsNull(ps[i])
       \/ \E i \in 1..Len(envs) : IsNull(envs[i])

\* The item sort comparator without the projectName tie-break
ItemCompareOrderOnly(a, b) == a.order - b.order

\* The item sort comparator: order, then projectName by localeCompare
ItemCompare(a, b) ==
    IF a.order # b.order THEN a.order - b.order
    ELSE localeCompare(a.projectName, b.projectName)

\* Array.prototype.sort is stable: an element goes after every earlier
\* element the comparator does not put after it (result <= 0).
RECURSIVE InsertItem(_, _)
InsertItem(x, s) ==
    IF s = <<>> THEN <<x>>
    ELSE IF ItemCompare(Head(s), x) <= 0
         THEN <<Head(s)>> \o InsertItem(x, Tail(s))
         ELSE <<x>> \o s

RECURSIVE SortItemsFrom(_, _, _)
SortItemsFrom(s, i, acc) ==
    IF i > Len(s) THEN acc ELSE SortItemsFrom(s, i + 1, InsertItem(s[i], acc))

SortItems(s) == SortItemsFrom(s, 1, <<>>)

\* The item filter without the enabled test
ItemMatchesAnyState(item, category) == item.categoryId = category.id

\* item.categoryId === category.id && item.enabled
ItemMatches(item, category) ==
    item.categoryId = category.id /\ Truthy(item, "enabled")

DefaultOrder == 999

\* a.category.order ?? 999
OrderOf(category) ==
    IF Has(category, "order") THEN category.order ELSE DefaultOrder

BlockCompare(a, b) == OrderOf(a.category) - OrderOf(b.category)

RECURSIVE InsertBlock(_, _)
InsertBlock(x, s) ==
    IF s = <<>> THEN <<x>>
    ELSE IF BlockCompare(Head(s), x) <= 0
         THEN <<Head(s)>> \o InsertBlock(x, Tail(s))
         ELSE <<x>> \o s

RECURSIVE SortBlocksFrom(_, _, _)
SortBlocksFrom(s, i, acc) ==
    IF i > Len(s) THEN acc ELSE SortBlocksFrom(s, i + 1, InsertBlock(s[i], acc))

SortBlocks(s) == SortBlocksFrom(s, 1, <<>>)

BlockOf(category, items) ==
    [category |-> category,
     items |-> SortItems(Keep(items,
         {k \in 1..Len(items) : ItemMatches(items[k], category)}))]

groupByCategory(cats, items) ==
    LET blocks == [i \in 1..Len(cats) |-> BlockOf(cats[i], items)]
    IN  SortBlocks(Keep(blocks,
            {i \in 1..Len(blocks) : Len(blocks[i].items) > 0}))

\* The filter callback reads category.id: a TypeError on a null category as
\* soon as there is an item to test.
GroupThrows(cats, items) ==
    Len(items) > 0 /\ \E i \in 1..Len(cats) : IsNull(cats[i])

\* build(): expand
Expand ==
    /\ bpc = "start"
    /\ IF ExpandThrows(projects, projectEnvs)
       THEN /\ bpc' = "crashed"
            /\ UNCHANGED navigationItems
       ELSE /\ navigationItems' = expandNavigationItems(projects, projectEnvs)
            /\ bpc' = "expanded"
    /\ UNCHANGED <<inputs, categoryBlocks, validateVars>>

\* build(): group (the snapshot written is { categoryBlocks })
Group ==
    /\ bpc = "expanded"
    /\ IF GroupThrows(categories, navigationItems)
       THEN /\ bpc' = "crashed"
            /\ UNCHANGED categoryBlocks
       ELSE /\ categoryBlocks' = groupByCategory(categories, navigationItems)
            /\ bpc' = "done"
    /\ UNCHANGED <<inputs, navigationItems, validateVars>>

---------------------------------------------------------------------------
(* src/types/index.ts: the Zod schemas.  An issue is <<path, message>>;    *)
(* array indices in paths are 0-based.                                     *)

\* z.string().url(): the URL strings of the model and whether each parses
UrlStrings == {"https://a.example.com", "not a url"}
IsUrl(u) == u = "https://a.example.com"

Issue(i, field, message) ==
    <<IF field = "" THEN ToString(i - 1) ELSE ToString(i - 1) \o "." \o field,
      message>>

NotObject(i) == <<Issue(i, "", "Expected object, received null")>>

\* z.string().min(1)
MinOne(r, i, field) ==
    IF Len(r[field]) < 1
    THEN <<Issue(i, field, "String must contain at least 1 character(s)")>>
    ELSE <<>>

\* z.number().int().min(0).optional()
OptionalOrder(r, i) ==
    IF Has(r, "order") /\ r.order < 0
    THEN <<Issue(i, "order", "Number must be greater than or equal to 0")>>
    ELSE <<>>

\* z.string().url()
UrlField(r, i) ==
    IF ~IsUrl(r.url) THEN <<Issue(i, "url", "Invalid url")>> ELSE <<>>

\* EnvTypeSchema
EnvField(r, i) ==
    IF r.env \notin EnvTypes
    THEN <<Issue(i, "env", "Invalid enum value")>>
    ELSE <<>>

CategorySchema(r, i) ==
    IF IsNull(r) THEN NotObject(i)
    ELSE MinOne(r, i, "id") \o MinOne(r, i, "name") \o OptionalOrder(r, i)

ProjectSchema(r, i) ==
    IF IsNull(r) THEN NotObject(i)
    ELSE MinOne(r, i, "id") \o MinOne(r, i, "name")
         \o MinOne(r, i, "categoryId") \o OptionalOrder(r, i)

ProjectEnvSchema(r, i) ==
    IF IsNull(r) THEN NotObject(i)
    ELSE MinOne(r, i, "projectId") \o EnvField(r, i) \o UrlField(r, i)

\* categoryId: z.string().optional(), no minimum length
LinkSchema(r, i) ==
    IF IsNull(r) THEN NotObject(i)
    ELSE MinOne(r, i, "id") \o MinOne(r, i, "name") \o UrlField(r, i)
         \o OptionalOrder(r, i)

\* enabled: z.boolean().default(true), applied to parsed.data
WithDefaults(r) ==
    IF Has(r, "enabled") THEN r ELSE r @@ [enabled |-> TRUE]

\* Schema.array().safeParse(records): the issues of all elements
CategoryIssues(records) ==
    Flatten([i \in 1..Len(records) |-> CategorySchema(records[i], i)])

ProjectIssues(records) ==
    Flatten([i \in 1..Len(records) |-> ProjectSchema(records[i], i)])

ProjectEnvIssues(records) ==
    Flatten([i \in 1..Len(records) |-> ProjectEnvSchema(records[i], i)])

LinkIssues(records) ==
    Flatten([i \in 1..Len(records) |-> LinkSchema(records[i], i)])

\* parsed.data: the records with the schema defaults applied
Parsed(records) == [i \in 1..Len(records) |-> WithDefaults(records[i])]

---------------------------------------------------------------------------
(* validate.ts.  An error string `${label}: ${values.join(', ')}` is the   *)
(* record [label, values]; a schema error `${label}: ${path} - ${message}` *)
(* has values = <<path, message>>.                                         *)

Error(label, values) == [label |-> label, values |-> values]

SchemaErrors(label, issues) ==
    [i \in 1..Len(issues) |-> Error(label, issues[i])]

\* ids.filter((id, index) => ids.indexOf(id) !== index)
Duplicates(s) == Keep(s, {i \in 1..Len(s) : IndexOf(s, s[i]) # i})

\* ids.filter((id) => !known.includes(id))
NotIn(s, known) == Keep(s, {i \in 1..Len(s) : ~Includes(known, s[i])})

ErrorIf(label, values) ==
    IF Len(values) > 0 THEN <<Error(label, values)>> ELSE <<>>

Result(errors) == [valid |-> errors = <<>>, errors |-> errors]

FieldOf(records, field) == [i \in 1..Len(records) |-> records[i][field]]

\* validateCategories without the ID uniqueness check
validateCategoriesNoUnique(cats) ==
    LET issues == CategoryIssues(cats)
    IN  Result(SchemaErrors("Category validation error", issues))

validateCategories(cats) ==
    LET issues == CategoryIssues(cats)
    IN  IF issues # <<>>
        THEN Result(SchemaErrors("Category validation error", issues))
        ELSE Result(ErrorIf("Duplicate category IDs",
                            Duplicates(FieldOf(cats, "id"))))

validateProjects(ps) ==
    LET issues == ProjectIssues(ps)
    IN  IF issues # <<>>
        THEN Result(SchemaErrors("Project validation error", issues))
        ELSE Result(ErrorIf("Duplicate project IDs",
                            Duplicates(FieldOf(ps, "id")))
                    \o ErrorIf("Duplicate project names",
                               Duplicates(FieldOf(ps, "name"))))

validateProjectEnvs(envs, categoryIds, projectIds) ==
    LET issues == ProjectEnvIssues(envs)
        data == Parsed(envs)
        combinations ==
            [i \in 1..Len(data) |-> data[i].projectId \o "-" \o data[i].env]
    IN  IF issues # <<>>
        THEN Result(SchemaErrors("ProjectEnv validation error", issues))
        ELSE Result(ErrorIf("ProjectEnv references non-existent projectIds",
                            Distinct(NotIn(FieldOf(data, "projectId"), projectIds)))
                    \o ErrorIf("Duplicate projectId-env combinations",
                               Distinct(Duplicates(combinations))))

\* parsed.data.filter((l) => l.categoryId): an absent categoryId and the
\* empty string are both falsy
HasCategoryId(l) == Has(l, "categoryId") /\ l.categoryId # ""

validateLinks(ls, categoryIds) ==
    LET issues == LinkIssues(ls)
        data == Parsed(ls)
        linksWithCategory ==
            Keep(data, {i \in 1..Len(data) : HasCategoryId(data[i])})
    IN  IF issues # <<>>
        THEN Result(SchemaErrors("Link validation error", issues))
        ELSE Result(ErrorIf("Duplicate link IDs",
                            Duplicates(FieldOf(data, "id")))
                    \o ErrorIf("Link references non-existent categoryIds",
                               Distinct(NotIn(
                                   FieldOf(linksWithCategory, "categoryId"),
                                   categoryIds))))

\* main: the project -> category foreign-key check
projectForeignKeys(ps, categoryIds) ==
    ErrorIf("Projects reference non-existent categoryIds",
            Distinct(NotIn(FieldOf(ps, "categoryId"), categoryIds)))

HasNull(records) == \E i \in 1..Len(records) : IsNull(records[i])

\* categories.map((c) => c.id) / projects.map((p) => p.id) throw a TypeError
\* on a null element; main's catch records it and the try block is left.
IdsThrow == HasNull(categories) \/ HasNull(projects)

ReadFailure == Error("Failed to read data files", <<"TypeError">>)

\* main, lines 185-191
CheckCategories ==
    /\ vpc = "categories"
    /\ allErrors' = allErrors \o validateCategories(categories).errors
    /\ checksRun' = checksRun \cup {"categories"}
    /\ vpc' = "projects"
    /\ UNCHANGED <<inputs, buildVars>>

\* main, lines 193-199
CheckProjects ==
    /\ vpc = "projects"
    /\ allErrors' = allErrors \o validateProjects(projects).errors
    /\ checksRun' = checksRun \cup {"projects"}
    /\ vpc' = "project-envs"
    /\ UNCHANGED <<inputs, buildVars>>

\* main, lines 201-209 (and the catch of lines 229-231)
CheckProjectEnvs ==
    /\ vpc = "project-envs"
    /\ IF IdsThrow
       THEN /\ allErrors' = Append(allErrors, ReadFailure)
            /\ vpc' = "done"
            /\ UNCHANGED checksRun
       ELSE /\ allErrors' = allErrors \o
                   validateProjectEnvs(projectEnvs, FieldOf(categories, "id"),
                                       FieldOf(projects, "id")).errors
            /\ checksRun' = checksRun \cup {"project-envs"}
            /\ vpc' = "links"
    /\ UNCHANGED <<inputs, buildVars>>

\* main, lines 211-217
CheckLinks ==
    /\ vpc = "links"
    /\ allErrors' = allErrors \o
           validateLinks(links, FieldOf(categories, "id")).errors
    /\ checksRun' = checksRun \cup {"links"}
    /\ vpc' = "foreign-keys"
    /\ UNCHANGED <<inputs, buildVars>>

\* main, lines 219-228
CheckForeignKeys ==
    /\ vpc = "foreign-keys"
    /\ allErrors' = allErrors \o
           projectForeignKeys(projects, FieldOf(categories, "id"))
    /\ checksRun' = checksRun \cup {"foreign-keys"}
    /\ vpc' = "done"
    /\ UNCHANGED <<inputs, buildVars>>

\* main, lines 233-245: the exit status
ExitCode == IF allErrors = <<>> THEN 0 ELSE 1

Validate ==
    \/ CheckCategories
    \/ CheckProjects
    \/ CheckProjectEnvs
    \/ CheckLinks
    \/ CheckForeignKeys

Build == Expand \/ Group

Next == Validate \/ Build

\* Datasets of at most n records in the four files together
Datasets(cs, ps, es, ls, n) ==
    /\ \E a \in 0..n : \E b \in 0..(n - a) : \E c \in 0..(n - a - b) :
       \E d \in 0..(n - a - b - c) :
          /\ categories \in [1..a -> cs]
          /\ projects \in [1..b -> ps]
          /\ projectEnvs \in [1..c -> es]
          /\ links \in [1..d -> ls]
    /\ navigationItems = <<>>
    /\ categoryBlocks = <<>>
    /\ bpc = "start"
    /\ allErrors = <<>>
    /\ checksRun = {}
    /\ vpc = "categories"

---------------------------------------------------------------------------
(* SpecValidate: the validate command on raw files, null elements and      *)
(* schema violations included                                              *)

RawCategories ==
    {Null,
     [id |-> "c1", name |-> "Infra"],
     [id |-> "c2", name |-> "", order |-> 1]}

RawProjects ==
    {Null,
     [id |-> "p1", name |-> "alpha", categoryId |-> "c1"],
     [id |-> "p1", name |-> "beta", categoryId |-> "c9"]}

RawEnvs ==
    {Null,
     [projectId |-> "p1", env |-> "prod", url |-> "https://a.example.com"],
     [projectId |-> "p9", env |-> "prod", url |-> "https://a.example.com",
      enabled |-> FALSE],
     [projectId |-> "p1", env |-> "prod", url |-> "not a url",
      enabled |-> TRUE]}

RawLinks ==
    {[id |-> "l1", name |-> "Docs", url |-> "https://a.example.com",
      categoryId |-> "c1"],
     [id |-> "l2", name |-> "Wiki", url |-> "https://a.example.com",
      categoryId |-> ""],
     [id |-> "l3", name |-> "Chat", url |-> "https://a.example.com",
      categoryId |-> "c9"],
     [id |-> "l1", name |-> "Blog", url |-> "not a url"]}

InitValidate == Datasets(RawCategories, RawProjects, RawEnvs, RawLinks, MaxRaw)

SpecValidate == InitValidate /\ [][Next]_vars

---------------------------------------------------------------------------
(* SpecPipeline: validate and build on the same data files                 *)

PipelineCategories ==
    {[id |-> "c1", name |-> "Infra"],
     [id |-> "c2", name |-> "Apps", order |-> 1]}

PipelineProjects ==
    {[id |-> "p1", name |-> "alpha", categoryId |-> "c1"],
     [id |-> "p2", name |-> "Beta", categoryId |-> "c2"],
     [id |-> "p1", name |-> "beta", categoryId |-> "c9"]}

PipelineEnvs ==
    {[projectId |-> "p1", env |-> "prod", url |-> "https://a.example.com",
      enabled |-> TRUE],
     [projectId |-> "p1", env |-> "test", url |-> "https://a.example.com"],
     [projectId |-> "p2", env |-> "prod", url |-> "https://a.example.com",
      enabled |-> TRUE],
     [projectId |-> "p9", env |-> "staging", url |-> "https://a.example.com",
      enabled |-> FALSE]}

PipelineLinks ==
    {[id |-> "l1", name |-> "Docs", url |-> "https://a.example.com",
      categoryId |-> "c1"],
     [id |-> "l2", name |-> "Wiki", url |-> "https://a.example.com",
      categoryId |-> "c9"]}

InitPipeline ==
    Datasets(PipelineCategories, PipelineProjects, PipelineEnvs,
             PipelineLinks, MaxRecords)

SpecPipeline == InitPipeline /\ [][Next]_vars

---------------------------------------------------------------------------
(* SpecGroup: groupByCategory on every list of categories and items *)

GroupCategories ==
    {[id |-> "c1", name |-> "Infra"],
     [id |-> "c2", name |-> "Apps", order |-> 1],
     [id |-> "c2", name |-> "Apps", order |-> 1000]}

GroupItems ==
    {[id |-> "p-" \o e, projectId |-> "p", projectName |-> n,
      categoryId |-> c, env |-> e, url |-> "https://a.example.com",
      enabled |-> en, order |-> getEnvOrder(e)] :
        n \in {"alpha", "Beta"}, c \in {"c1", "c2"}, e \in {"prod", "test"},
        en \in BOOLEAN}

InitGroup ==
    /\ categories \in SeqOf(GroupCategories, MaxCats)
    /\ navigationItems \in SeqOf(GroupItems, MaxItems)
    /\ projects = <<>>
    /\ projectEnvs = <<>>
    /\ links = <<>>
    /\ categoryBlocks = <<>>
    /\ bpc = "expanded"
    /\ allErrors = <<>>
    /\ checksRun = {}
    /\ vpc = "off"

NextGroup == Group

SpecGroup == InitGroup /\ [][NextGroup]_vars

---------------------------------------------------------------------------
(* Claims about groupByCategory (SpecGroup) *)

Grouped == bpc = "done"

\* Number of occurrences of x in the sequence s
Count(s, x) == Cardinality({i \in 1..Len(s) : s[i] = x})

EnabledTrue(item) == Has(item, "enabled") /\ item.enabled = TRUE

Qualifies(item, category) ==
    item.categoryId = category.id /\ EnabledTrue(item)

HasQualifying(category) ==
    \E k \in 1..Len(navigationItems) : Qualifies(navigationItems[k], category)

BlockCategories == [i \in 1..Len(categoryBlocks) |-> categoryBlocks[i].category]

\* C1: groupByCategory returns one block per input category that has at
\* least one item with item.categoryId = category.id and enabled true, and no
\* other block; each block's items are exactly those items (as a multiset).
\* Hence no block is empty and no disabled item appears in a block.
C1_BlocksAreTheQualifyingItems ==
    Grouped =>
        /\ \A c \in Range(categories) \cup Range(BlockCategories) :
              Count(BlockCategories, c) =
                  IF HasQualifying(c) THEN Count(categories, c) ELSE 0
        /\ \A i \in 1..Len(categoryBlocks) :
              LET b == categoryBlocks[i] IN
              /\ Len(b.items) > 0
              /\ \A x \in Range(navigationItems) \cup Range(b.items) :
                    Count(b.items, x) =
                        IF Qualifies(x, b.category)
                        THEN Count(navigationItems, x) ELSE 0
              /\ \A k \in 1..Len(b.items) : EnabledTrue(b.items[k])

\* C1 witness: a category was dropped for want of an enabled item while
\* another block was emitted, and a disabled item of an emitted block's
\* category was left out.
C1_Witness ==
    /\ Grouped
    /\ Len(categoryBlocks) >= 1
    /\ \E c \in Range(categories) : ~HasQualifying(c)
    /\ \E i \in 1..Len(categoryBlocks), k \in 1..Len(navigationItems) :
          /\ navigationItems[k].categoryId = categoryBlocks[i].category.id
          /\ ~EnabledTrue(navigationItems[k])

\* C2: in every emitted block, for positions i < j, items[i].order <=
\* items[j].order, and when the orders are equal items[i].projectName does
\* not collate after items[j].projectName.
C2_ItemsSorted ==
    Grouped =>
        \A b \in Range(categoryBlocks) :
            \A i, j \in 1..Len(b.items) :
                i < j =>
                    /\ b.items[i].order <= b.items[j].order
                    /\ b.items[i].order = b.items[j].order =>
                          localeCompare(b.items[i].projectName,
                                        b.items[j].projectName) <= 0

\* C2 witness: a block holds two items of equal order that the input listed
\* in the opposite collation order, and a block holds two items the input
\* listed in descending order.
C2_Witness ==
    /\ Grouped
    /\ Len(navigationItems) >= 2
    /\ \E b \in Range(categoryBlocks) :
          /\ Len(b.items) >= 2
          /\ b.items[1].order = b.items[2].order
          /\ b.items[1].projectName # b.items[2].projectName
          /\ b.items[1] = navigationItems[2]
          /\ b.items[2] = navigationItems[1]

\* C3 (as claimed): a block whose category has no order field is placed
\* after every block whose category declares an explicit order.
C3_UnorderedBlocksLast ==
    Grouped =>
        \A i, j \in 1..Len(categoryBlocks) :
            (/\ ~Has(categoryBlocks[i].category, "order")
             /\ Has(categoryBlocks[j].category, "order")) => j < i

---------------------------------------------------------------------------
(* Claims about expandNavigationItems and the build (SpecPipeline) *)

Expanded == bpc \in {"expanded", "done"}

Built == bpc = "done"

IdsWellFormed ==
    \A n \in 1..Len(navigationItems) :
        LET item == navigationItems[n] IN
        /\ item.id = item.projectId \o "-" \o item.env
        /\ \E i \in 1..Len(projects), k \in 1..Len(projectEnvs) :
              /\ projects[i].id = projectEnvs[k].projectId
              /\ item.projectId = projects[i].id
              /\ item.env = projectEnvs[k].env

EnvPairsDistinct ==
    \A k, m \in 1..Len(projectEnvs) :
        k # m => \/ projectEnvs[k].projectId # projectEnvs[m].projectId
                 \/ projectEnvs[k].env # projectEnvs[m].env

ProjectIdsDistinct ==
    \A i, j \in 1..Len(projects) : i # j => projects[i].id # projects[j].id

ItemIdsDistinct ==
    \A n, m \in 1..Len(navigationItems) :
        n # m => navigationItems[n].id # navigationItems[m].id

EveryEnvHasProject ==
    \A k \in 1..Len(projectEnvs) :
        \E i \in 1..Len(projects) : projects[i].id = projectEnvs[k].projectId

\* Positions of the items derived from the env record at position k
ItemsOfEnv(k) ==
    {n \in 1..Len(navigationItems) :
        /\ navigationItems[n].projectId = projectEnvs[k].projectId
        /\ navigationItems[n].env = projectEnvs[k].env}

\* C4 (as claimed): every item has id = projectId + "-" + env, and the ids
\* are pairwise distinct whenever the (projectId, env) pairs of the env list
\* are, for every projects list.
C4_IdsUniqueForEveryProjectsList ==
    Expanded => IdsWellFormed /\ (EnvPairsDistinct => ItemIdsDistinct)

\* C4 (amended): every item has id = projectId + "-" + env, and the ids are
\* pairwise distinct whenever the (projectId, env) pairs of the env list are
\* pairwise distinct and the project ids are pairwise distinct.
C4_IdsUniqueWhenProjectIdsUnique ==
    Expanded =>
        /\ IdsWellFormed
        /\ (EnvPairsDistinct /\ ProjectIdsDistinct) => ItemIdsDistinct

\* C4 witness: two environments of one project were expanded, next to a
\* second project, all keys distinct.
C4_Witness ==
    /\ Expanded
    /\ EnvPairsDistinct
    /\ ProjectIdsDistinct
    /\ Len(projects) >= 2
    /\ \E n, m \in 1..Len(navigationItems) :
          /\ n # m
          /\ navigationItems[n].projectId = navigationItems[m].projectId

\* C5 (as claimed): for every projects list, when every env's projectId is
\* the id of some project, expandNavigationItems returns exactly |E| items.
C5_OneItemPerEnvForEveryProjectsList ==
    (Expanded /\ EveryEnvHasProject) =>
        Len(navigationItems) = Len(projectEnvs)

\* C5 (amended): for every projects list with pairwise distinct ids, when
\* every env's projectId is the id of some project, expandNavigationItems
\* returns exactly |E| items, one per env record (as many items carry a
\* (projectId, env) pair as env records do).
C5_OneItemPerEnvWhenProjectIdsUnique ==
    (Expanded /\ EveryEnvHasProject /\ ProjectIdsDistinct) =>
        /\ Len(navigationItems) = Len(projectEnvs)
        /\ \A k \in 1..Len(projectEnvs) :
              Cardinality(ItemsOfEnv(k)) =
                  Cardinality({m \in 1..Len(projectEnvs) :
                      /\ projectEnvs[m].projectId = projectEnvs[k].projectId
                      /\ projectEnvs[m].env = projectEnvs[k].env})

\* C5 witness: one project with two env records and one project with none.
C5_Witness ==
    /\ Expanded
    /\ EveryEnvHasProject
    /\ ProjectIdsDistinct
    /\ Len(projectEnvs) >= 2
    /\ \E i \in 1..Len(projects) :
          \A k \in 1..Len(projectEnvs) :
              projectEnvs[k].projectId # projects[i].id

\* Number of times the items at the positions ns occur in the emitted blocks
\* whose category id is in ids
Occurrences(ns, ids) ==
    Cardinality({<<b, k>> \in (1..Len(categoryBlocks)) \X (1..Len(navigationItems)) :
        /\ categoryBlocks[b].category.id \in ids
        /\ k <= Len(categoryBlocks[b].items)
        /\ \E n \in ns : categoryBlocks[b].items[k] = navigationItems[n]})

CategoryIds == {categories[c].id : c \in 1..Len(categories)}

\* C8 (as claimed): in the build, a ProjectEnv record without an enabled
\* field is treated as enabled: its item has enabled = true and appears in
\* the block of its project's category whenever that category exists.
C8_AbsentEnabledMeansEnabled ==
    Built =>
        \A k \in 1..Len(projectEnvs), i \in 1..Len(projects) :
            (/\ ~Has(projectEnvs[k], "enabled")
             /\ projects[i].id = projectEnvs[k].projectId
             /\ \E c \in 1..Len(categories) :
                   categories[c].id = projects[i].categoryId)
            =>
            \E b \in 1..Len(categoryBlocks) :
                /\ categoryBlocks[b].category.id = projects[i].categoryId
                /\ \E x \in Range(categoryBlocks[b].items) :
                      /\ x.projectId = projectEnvs[k].projectId
                      /\ x.env = projectEnvs[k].env
                      /\ EnabledTrue(x)

ValidatedClean == vpc = "done" /\ allErrors = <<>>

\* C10: on a dataset for which validate ends with an empty error list, each
\* ProjectEnv record with enabled explicitly true yields exactly one
\* navigation item, and that item occurs exactly once in the emitted blocks,
\* in the block of its project's category.
C10_ValidatedBuildLosesNothing ==
    (ValidatedClean /\ Built) =>
        \A k \in 1..Len(projectEnvs) :
            Truthy(projectEnvs[k], "enabled") =>
                /\ Cardinality(ItemsOfEnv(k)) = 1
                /\ Occurrences(ItemsOfEnv(k), CategoryIds) = 1
                /\ \E i \in 1..Len(projects) :
                      /\ projects[i].id = projectEnvs[k].projectId
                      /\ Occurrences(ItemsOfEnv(k),
                                     {projects[i].categoryId}) = 1

\* C10 witness: a validated dataset with two categories and an explicitly
\* enabled env record has been built.
C10_Witness ==
    /\ ValidatedClean
    /\ Built
    /\ Len(categories) >= 2
    /\ \E k \in 1..Len(projectEnvs) : Truthy(projectEnvs[k], "enabled")

---------------------------------------------------------------------------
(* Claims about the validate command (SpecValidate) *)

Validated == vpc = "done"

IntegrityLabels ==
    {"Duplicate category IDs", "Duplicate project IDs",
     "Duplicate project names", "Duplicate link IDs",
     "ProjectEnv references non-existent projectIds",
     "Duplicate projectId-env combinations",
     "Link references non-existent categoryIds",
     "Projects reference non-existent categoryIds"}

\* C6 (as claimed): every uniqueness or foreign-key error names each
\* offending value exactly once, however often the value occurs.
C6_OffendingValuesNamedOnce ==
    Validated =>
        \A e \in Range(allErrors) :
            e.label \in IntegrityLabels =>
                \A v \in Range(e.values) : Count(e.values, v) = 1

SomeSchemaViolation ==
    \/ CategoryIssues(categories) # <<>>
    \/ ProjectIssues(projects) # <<>>
    \/ ProjectEnvIssues(projectEnvs) # <<>>
    \/ LinkIssues(links) # <<>>

Reported(label) == \E e \in Range(allErrors) : e.label = label

\* C7 (as claimed): in a run with a schema violation in some file (a null
\* element included), the ProjectEnv check, the Link check and the
\* project -> category check are all executed and the schema violations of
\* the env and link files are in the final error list.
C7_SchemaViolationStopsNoCheck ==
    (Validated /\ SomeSchemaViolation) =>
        /\ {"project-envs", "links", "foreign-keys"} \subseteq checksRun
        /\ ProjectEnvIssues(projectEnvs) # <<>> =>
              Reported("ProjectEnv validation error")
        /\ LinkIssues(links) # <<>> =>
              Reported("Link validation error")

\* C9 (as claimed): when the links pass the Link schema and some link
\* carries a categoryId (the empty string included) that is not the id of a
\* loaded category, validateLinks reports an error naming that categoryId.
C9_UnknownLinkCategoryReported ==
    ("links" \in checksRun /\ LinkIssues(links) = <<>>) =>
        \A k \in 1..Len(links) :
            (/\ Has(links[k], "categoryId")
             /\ \A c \in 1..Len(categories) :
                   categories[c].id # links[k].categoryId)
            =>
            \E e \in Range(allErrors) :
                /\ e.label = "Link references non-existent categoryIds"
                /\ links[k].categoryId \in Range(e.values)

=============================================================================
